---- MODULE Spec2Model ----
(***************************************************************************)
(* SNU Brown Bag portal (src/snu_brown_bag.py): the SQLite store           *)
(* (departments, presentations, activity_logs), the Streamlit sessions of  *)
(* the coordinators and the admin tools, as a state machine.  Every script *)
(* run of a session is a sequence of steps, one per access to the shared   *)
(* database; writes of one connection are pending until its commit.        *)
(* The figures of the Analytics tab and the steps of generate_pdf_report,  *)
(* with the files it leaves in the working directory, are part of it.      *)
(***************************************************************************)
EXTENDS Integers, Sequences, FiniteSets, TLC

\* ------------------------------------------------------------------ bounds
\* Rows ever inserted into presentations (AUTOINCREMENT ids 1..MaxPres).
MaxPres == 2
\* Rows ever inserted into departments.
MaxDepts == 2
\* Rows ever inserted into activity_logs.
MaxLogs == 3

\* ------------------------------------------------------------------ inputs
\* Browser sessions of coordinators (each has its own st.session_state).
Sessions == {"s1", "s2"}
\* Department names and passwords typed by the admin / the coordinators.
DeptNames == {"CSE", "ECE", "EEE"}
Passwords == {"pw1", "pw2"}
\* Values typed into the "Admin Pass" box.
AdminPassInputs == {"admin123", "guess"}
\* Readings of datetime.now() for action_time; the clock may step backwards.
Clock == {1, 2}

\* st.session_state["dept"] = None
NoDept == "<None>"
\* the single option of the login selectbox when departments is empty
NoDepts == "No Depts"

\* dt_time(h, m).strftime("%I:%M %p"): 12-hour clock, zero padded, AM/PM;
\* the text is kept as its three fields <<hh, mm, meridiem>>.
strftime(h, m) ==
    << IF h % 12 = 0 THEN 12 ELSE h % 12, m, IF h < 12 THEN "AM" ELSE "PM" >>

\* TIME_SLOTS: 48 texts, 08:00 AM .. 07:45 PM, in steps of 15 minutes.
TIME_SLOTS == [i \in 1..48 |-> strftime(8 + ((i - 1) \div 4), ((i - 1) % 4) * 15)]

DURATIONS == << "30 mins", "45 mins", "1 hour", "1.5 hours", "2 hours" >>

\* str(p_date) of a datetime.date: ISO text YYYY-MM-DD, kept as its fields.
DateStr(d) == << d.year, d.month, d.day >>

\* Values submitted with the "Add New" form (st.form add_pres_form).
AddForms ==
    { [p_name |-> "Asha", p_role |-> "Faculty", p_guide |-> "", p_title |-> "Graphs",
       p_abstract |-> "abs1", p_date |-> [year |-> 2026, month |-> 11, day |-> 2],
       p_time |-> TIME_SLOTS[1], p_dur |-> DURATIONS[1], p_venue |-> "Hall1"],
      [p_name |-> "Ravi", p_role |-> "Scholar", p_guide |-> "Asha", p_title |-> "Logic",
       p_abstract |-> "abs2", p_date |-> [year |-> 2026, month |-> 11, day |-> 2],
       p_time |-> TIME_SLOTS[1], p_dur |-> DURATIONS[3], p_venue |-> "Hall2"],
      [p_name |-> "", p_role |-> "Student", p_guide |-> "Asha", p_title |-> "Graphs",
       p_abstract |-> "abs1", p_date |-> [year |-> 2026, month |-> 11, day |-> 2],
       p_time |-> TIME_SLOTS[1], p_dur |-> DURATIONS[1], p_venue |-> "Hall1"],
      [p_name |-> "Asha", p_role |-> "Faculty", p_guide |-> "", p_title |-> "",
       p_abstract |-> "abs1", p_date |-> [year |-> 2026, month |-> 11, day |-> 2],
       p_time |-> TIME_SLOTS[1], p_dur |-> DURATIONS[1], p_venue |-> "Hall1"] }

\* ------------------------------------------------------------------- state
VARIABLES
    db,             \* the committed content of ssn_research.db
    tx,             \* the open write transaction: its owner and working copy
    session_state,  \* st.session_state of every session: auth, dept, edit_id
    pc,             \* position of every session's current script run
    loc,            \* local variables of every session's current script run
    msg,            \* what the last finished script run rendered (st.success,
                    \* st.error, an uncaught exception; "" when it rendered none)
    n_ops,          \* add and delete operations that reported success so far
    files           \* names of the files in the working directory of the server

vars == << db, tx, session_state, pc, loc, msg, n_ops, files >>

NoTx == [owner |-> "none"]
NoLoc == [run |-> "none"]

\* init_db: four empty tables; AUTOINCREMENT keeps the last id per table.
init_db ==
    [ departments |-> << >>,
      presentations |-> {},
      activity_logs |-> {},
      sqlite_sequence |-> [presentations |-> 0, activity_logs |-> 0] ]

Init ==
    /\ db = init_db
    /\ tx = NoTx
    /\ session_state = [s \in Sessions |-> [auth |-> FALSE, dept |-> NoDept, edit_id |-> {}]]
    /\ pc = [s \in Sessions |-> "idle"]
    /\ loc = [s \in Sessions |-> NoLoc]
    /\ msg = ""
    /\ n_ops = [added |-> 0, deleted |-> 0]
    /\ files = {}

\* delayed_refresh(message): st.success(message), a pause, then st.rerun();
\* the rerun renders the page again, without the message.
delayed_refresh(message) == ""

\* ----------------------------------------------------------------- queries
DeptIds(d) == DOMAIN d.departments
DeptNamesOf(d) == { d.departments[i].name : i \in DeptIds(d) }

\* SELECT p.*, d.name as Dept FROM presentations p JOIN departments d ON p.dept_id = d.id
df(d) ==
    { [row |-> p, Dept |-> d.departments[p.dept_id].name] :
        p \in { q \in d.presentations : q.dept_id \in DeptIds(d) } }

\* ORDER BY <key> DESC over the rows of a table
RECURSIVE OrderByDesc(_, _)
OrderByDesc(rows, key) ==
    IF rows = {} THEN << >>
    ELSE LET top == CHOOSE r \in rows : \A q \in rows : q[key] <= r[key]
         IN << top >> \o OrderByDesc(rows \ {top}, key)

\* The listing sorted by the recorded time instead of by id.
log_rows_ByActionTime == OrderByDesc(db.activity_logs, "action_time")

\* Notifications: SELECT ... FROM activity_logs ORDER BY id DESC
log_rows == OrderByDesc(db.activity_logs, "id")

\* log_df: the columns action_time, action, title, presenter, dept_name, done_by
log_df ==
    [i \in DOMAIN log_rows |->
        [action_time |-> log_rows[i].action_time, action |-> log_rows[i].action,
         title |-> log_rows[i].title, presenter |-> log_rows[i].presenter,
         dept_name |-> log_rows[i].dept_name, done_by |-> log_rows[i].done_by]]

\* ---------------------------------------------------------- public schedule
\* datetime.now().strftime("%Y-%m-%d") at the time the page is rendered.
Todays == { << 2026, 11, 1 >>, << 2026, 11, 3 >> }

\* Comparison of two date texts YYYY-MM-DD (zero padded: field by field).
DateTextLess(a, b) ==
    \/ a[1] < b[1]
    \/ a[1] = b[1] /\ a[2] < b[2]
    \/ a[1] = b[1] /\ a[2] = b[2] /\ a[3] < b[3]

\* Comparison of two time texts "hh:mm AM|PM" as TEXT: the two digits of the
\* 12-hour clock first, then the minutes, then the meridiem ("AM" < "PM").
TimeTextLess(a, b) ==
    \/ a[1] < b[1]
    \/ a[1] = b[1] /\ a[2] < b[2]
    \/ a[1] = b[1] /\ a[2] = b[2] /\ a[3] = "AM" /\ b[3] = "PM"

\* ORDER BY date ASC, time ASC (rows equal in both keep the order of their ids)
RECURSIVE OrderByDateTime(_)
OrderByDateTime(rows) ==
    IF rows = {} THEN << >>
    ELSE LET first == CHOOSE r \in rows : \A q \in rows \ {r} :
                         \/ DateTextLess(r.row.date, q.row.date)
                         \/ /\ r.row.date = q.row.date
                            /\ \/ TimeTextLess(r.row.time, q.row.time)
                               \/ r.row.time = q.row.time /\ r.row.id < q.row.id
         IN << first >> \o OrderByDateTime(rows \ {first})

\* SELECT p.*, d.name as Dept ... WHERE date >= ? ORDER BY date ASC, time ASC
upcoming(today) ==
    OrderByDateTime({ r \in df(db) : ~ DateTextLess(r.row.date, today) })

\* upcoming[safe_cols].sort_values(["date", "time"]): the table shown
upcoming_shown(today) ==
    OrderByDateTime({ upcoming(today)[i] : i \in DOMAIN upcoming(today) })

\* ------------------------------------------------------- coordinator login
\* Options of the "Select Dept" box: the names read from departments.
LoginOptions == IF db.departments = << >> THEN {NoDepts} ELSE DeptNamesOf(db)

\* The password compared with the passwords of all departments.
PasswordMatches_AnyDept(dept_choice, pass_in) ==
    \E i \in DeptIds(db) : pass_in = db.departments[i].password

\* pass_in == d_df[d_df["name"] == dept_choice]["password"].values[0]
PasswordMatches(dept_choice, pass_in) ==
    /\ db.departments # << >>
    /\ \E i \in DeptIds(db) :
          /\ db.departments[i].name = dept_choice
          /\ \A j \in DeptIds(db) : db.departments[j].name = dept_choice => i <= j
          /\ pass_in = db.departments[i].password

Login(s, dept_choice, pass_in) ==
    /\ pc[s] = "idle"
    /\ ~session_state[s].auth
    /\ dept_choice \in LoginOptions
    /\ IF PasswordMatches(dept_choice, pass_in)
         THEN /\ session_state' = [session_state EXCEPT ![s].auth = TRUE,
                                                        ![s].dept = dept_choice]
              /\ msg' = ""
         ELSE /\ msg' = "Invalid Credentials."
              /\ UNCHANGED session_state
    /\ UNCHANGED << db, tx, pc, loc, n_ops, files >>

Logout(s) ==
    /\ pc[s] = "idle"
    /\ session_state[s].auth
    /\ session_state' = [session_state EXCEPT ![s].auth = FALSE]
    /\ msg' = ""
    /\ UNCHANGED << db, tx, pc, loc, n_ops, files >>

\* ------------------------------------------------------- admin: departments
ADMIN_PASS == "admin123"

\* The column declared without UNIQUE.
UniqueViolated_Never(name, except) == FALSE

\* name TEXT UNIQUE: the statement fails when another row holds the name
\* (sqlite3.IntegrityError, uncaught; the statement's changes are backed out).
UniqueViolated(name, except) ==
    \E i \in DeptIds(db) : i # except /\ db.departments[i].name = name

CreateDept(admin_pass, dn, dp) ==
    /\ admin_pass = ADMIN_PASS
    /\ tx = NoTx
    /\ IF UniqueViolated(dn, 0)
         THEN /\ msg' = "sqlite3.IntegrityError"
              /\ UNCHANGED db
         ELSE /\ Len(db.departments) < MaxDepts
              /\ db' = [db EXCEPT !.departments =
                          Append(@, [name |-> dn, head_email |-> "hod", coord_email |-> "coord",
                                     password |-> dp])]
              /\ msg' = delayed_refresh("Created.")
    /\ UNCHANGED << tx, session_state, pc, loc, n_ops, files >>

UpdateDept(admin_pass, id, en, ep) ==
    /\ admin_pass = ADMIN_PASS
    /\ tx = NoTx
    /\ id \in DeptIds(db)
    /\ IF UniqueViolated(en, id)
         THEN /\ msg' = "sqlite3.IntegrityError"
              /\ UNCHANGED db
         ELSE /\ db' = [db EXCEPT !.departments[id].name = en,
                                  !.departments[id].password = ep]
              /\ msg' = delayed_refresh("Updated.")
    /\ UNCHANGED << tx, session_state, pc, loc, n_ops, files >>

\* ------------------------------------------------------------ transactions
\* sqlite3 opens a transaction before the first INSERT/UPDATE/DELETE of a
\* connection and keeps the database's write lock until commit; the other
\* connections read the committed content meanwhile.
Begin(s) == [owner |-> s, db |-> db]

NextId(d, table) == d.sqlite_sequence[table] + 1

\* INSERT INTO presentations (...) VALUES (...)
InsertPresentation(d, f, dept_id) ==
    [d EXCEPT !.presentations = @ \cup
                 { [id |-> NextId(d, "presentations"), presenter |-> f.p_name,
                    designation |-> f.p_role, guide_name |-> f.p_guide, title |-> f.p_title,
                    abstract |-> f.p_abstract, date |-> DateStr(f.p_date), time |-> f.p_time,
                    duration |-> f.p_dur, venue_hall |-> f.p_venue, dept_id |-> dept_id] },
              !.sqlite_sequence.presentations = @ + 1]

\* INSERT INTO activity_logs (action, title, presenter, dept_name, done_by, action_time)
InsertLog(d, action, title, presenter, dept_name, done_by, now) ==
    [d EXCEPT !.activity_logs = @ \cup
                 { [id |-> NextId(d, "activity_logs"), action |-> action, title |-> title,
                    presenter |-> presenter, dept_name |-> dept_name, done_by |-> done_by,
                    action_time |-> now] },
              !.sqlite_sequence.activity_logs = @ + 1]

\* The delete also purging the log entries that carry the row's title.
DeletePresentation_Cascade(d, id) ==
    [d EXCEPT !.presentations = { p \in @ : p.id # id },
              !.activity_logs =
                 { e \in @ : \A p \in d.presentations : p.id = id => e.title # p.title }]

\* DELETE FROM presentations WHERE id=?
DeletePresentation(d, id) ==
    [d EXCEPT !.presentations = { p \in @ : p.id # id }]

\* The update also writing an UPDATED entry to the activity log.
UpdatePresentation_Logged(d, id, e) ==
    [d EXCEPT !.presentations =
        { IF p.id = id
            THEN [p EXCEPT !.title = e.new_title, !.venue_hall = e.new_venue,
                           !.time = e.new_time, !.duration = e.new_duration]
            ELSE p : p \in @ },
              !.activity_logs = @ \cup
                 { [id |-> NextId(d, "activity_logs"), action |-> "UPDATED",
                    title |-> e.new_title, presenter |-> "", dept_name |-> "",
                    done_by |-> "", action_time |-> 1] }]

\* UPDATE presentations SET title=?, venue_hall=?, time=?, duration=? WHERE id=?
UpdatePresentation(d, id, e) ==
    [d EXCEPT !.presentations =
        { IF p.id = id
            THEN [p EXCEPT !.title = e.new_title, !.venue_hall = e.new_venue,
                           !.time = e.new_time, !.duration = e.new_duration]
            ELSE p : p \in @ }]

\* Script runs in flight that will still insert a row into a table.
InFlight(runs) == Cardinality({ s \in Sessions : pc[s] \in runs })

\* --------------------------------------------------- coordinator: Add New
\* SELECT id FROM departments WHERE name=?   (the rows found)
DeptRes(name) == { i \in DeptIds(db) : db.departments[i].name = name }

\* fetchone(): the first row, None (no id, written 0) when there is none
None == 0
fetchone(rows) == IF rows = {} THEN None ELSE CHOOSE i \in rows : \A j \in rows : i <= j

\* The insert done whatever the lookup returned.
Found_Always(dept_res) == TRUE

\* if dept_res:
Found(dept_res) == dept_res # None

\* "Confirm & Schedule": validation of the form and the department lookup.
AddSubmit(s, f) ==
    /\ pc[s] = "idle"
    /\ session_state[s].auth
    /\ db.sqlite_sequence.presentations
         + InFlight({"add_insert_pres", "add_insert_log", "add_commit"}) < MaxPres
    /\ Cardinality(db.activity_logs)
         + InFlight({"add_insert_pres", "add_insert_log", "add_commit",
                     "del_insert_log", "del_delete", "del_commit"}) < MaxLogs
    /\ IF f.p_name = "" \/ f.p_title = ""
         THEN /\ msg' = "Please fill in Name and Title."
              /\ UNCHANGED << pc, loc >>
         ELSE LET dept_res == fetchone(DeptRes(session_state[s].dept)) IN
              IF Found(dept_res)
                THEN /\ pc' = [pc EXCEPT ![s] = "add_insert_pres"]
                     /\ loc' = [loc EXCEPT ![s] =
                                  [run |-> "add", form |-> f, dept_res |-> dept_res]]
                     /\ UNCHANGED msg
                ELSE /\ msg' = ""
                     /\ UNCHANGED << pc, loc >>
    /\ UNCHANGED << db, tx, session_state, n_ops, files >>

\* The connection in autocommit mode: the insert is committed at once.
AddInsertPres_Autocommit(s) ==
    /\ pc[s] = "add_insert_pres"
    /\ tx = NoTx
    /\ db' = InsertPresentation(db, loc[s].form, loc[s].dept_res)
    /\ tx' = [owner |-> s, db |-> db']
    /\ pc' = [pc EXCEPT ![s] = "add_insert_log"]
    /\ UNCHANGED << session_state, loc, msg, n_ops, files >>

AddInsertPres(s) ==
    /\ pc[s] = "add_insert_pres"
    /\ tx = NoTx
    /\ tx' = [Begin(s) EXCEPT !.db = InsertPresentation(@, loc[s].form, loc[s].dept_res)]
    /\ pc' = [pc EXCEPT ![s] = "add_insert_log"]
    /\ UNCHANGED << db, session_state, loc, msg, n_ops, files >>

AddInsertLog(s, now) ==
    /\ pc[s] = "add_insert_log"
    /\ tx.owner = s
    /\ tx' = [tx EXCEPT !.db = InsertLog(@, "ADDED", loc[s].form.p_title, loc[s].form.p_name,
                                         session_state[s].dept, session_state[s].dept, now)]
    /\ pc' = [pc EXCEPT ![s] = "add_commit"]
    /\ UNCHANGED << db, session_state, loc, msg, n_ops, files >>

AddCommit(s) ==
    /\ pc[s] = "add_commit"
    /\ tx.owner = s
    /\ db' = tx.db
    /\ tx' = NoTx
    /\ pc' = [pc EXCEPT ![s] = "idle"]
    /\ loc' = [loc EXCEPT ![s] = NoLoc]
    /\ msg' = delayed_refresh("Presentation Added!")
    /\ n_ops' = [n_ops EXCEPT !.added = @ + 1]
    /\ UNCHANGED << session_state, files >>

\* ------------------------------------------ coordinator: Manage Presentations
\* SELECT p.*, d.name as Dept ... WHERE d.name = ?
pres_df(dept_name) == { r \in df(db) : r.Dept = dept_name }

EditSelected(s, selected_id) ==
    /\ pc[s] = "idle"
    /\ session_state[s].auth
    /\ \E r \in pres_df(session_state[s].dept) : r.row.id = selected_id
    /\ session_state' = [session_state EXCEPT ![s].edit_id = {selected_id}]
    /\ msg' = ""
    /\ UNCHANGED << db, tx, pc, loc, n_ops, files >>

\* "Delete Selected": the listing is read, the row to log is taken from it.
DeleteSelected(s, selected_id) ==
    /\ pc[s] = "idle"
    /\ session_state[s].auth
    /\ Cardinality(db.activity_logs)
         + InFlight({"add_insert_pres", "add_insert_log", "add_commit",
                     "del_insert_log", "del_delete", "del_commit"}) < MaxLogs
    /\ \E r \in pres_df(session_state[s].dept) :
          /\ r.row.id = selected_id
          /\ loc' = [loc EXCEPT ![s] = [run |-> "delete", selected_id |-> selected_id, row |-> r]]
    /\ pc' = [pc EXCEPT ![s] = "del_insert_log"]
    /\ UNCHANGED << db, tx, session_state, msg, n_ops, files >>

DeleteInsertLog(s, now) ==
    /\ pc[s] = "del_insert_log"
    /\ tx = NoTx
    /\ tx' = [Begin(s) EXCEPT !.db = InsertLog(@, "DELETED", loc[s].row.row.title,
                                               loc[s].row.row.presenter, loc[s].row.Dept,
                                               session_state[s].dept, now)]
    /\ pc' = [pc EXCEPT ![s] = "del_delete"]
    /\ UNCHANGED << db, session_state, loc, msg, n_ops, files >>

DeleteRow(s) ==
    /\ pc[s] = "del_delete"
    /\ tx.owner = s
    /\ tx' = [tx EXCEPT !.db = DeletePresentation(@, loc[s].selected_id)]
    /\ pc' = [pc EXCEPT ![s] = "del_commit"]
    /\ UNCHANGED << db, session_state, loc, msg, n_ops, files >>

DeleteCommit(s) ==
    /\ pc[s] = "del_commit"
    /\ tx.owner = s
    /\ db' = tx.db
    /\ tx' = NoTx
    /\ pc' = [pc EXCEPT ![s] = "idle"]
    /\ loc' = [loc EXCEPT ![s] = NoLoc]
    /\ msg' = delayed_refresh("Deleted & Logged")
    /\ n_ops' = [n_ops EXCEPT !.deleted = @ + 1]
    /\ UNCHANGED << session_state, files >>

\* ----------------------------------------------------------- the edit form
\* SELECT * FROM presentations WHERE id=?
edit_data(id) == { p \in db.presentations : p.id = id }

\* The update form offering a free text for the time.
EditForms_FreeText(erow) ==
    { [new_title |-> erow.title, new_venue |-> erow.venue_hall,
       new_time |-> << 7, 50, "PM" >>, new_duration |-> erow.duration] }

\* Values submitted with the edit form: every widget starts at erow's value;
\* the user leaves them all alone or changes all four.
EditForms(erow) ==
    { [new_title |-> erow.title, new_venue |-> erow.venue_hall,
       new_time |-> erow.time, new_duration |-> erow.duration],
      [new_title |-> "Graphs II", new_venue |-> "Hall2",
       new_time |-> TIME_SLOTS[21], new_duration |-> DURATIONS[2]] }

\* A script run with edit_id in the session state: the row is read; the form
\* block, with the handling of "Update Presentation", is run only when the
\* row exists, and is skipped without any output when it does not.
UpdateSubmit(s) ==
    /\ pc[s] = "idle"
    /\ session_state[s].edit_id # {}
    /\ LET edit_id == CHOOSE i \in session_state[s].edit_id : TRUE IN
         IF edit_data(edit_id) = {}
           THEN /\ msg' = ""
                /\ UNCHANGED << pc, loc >>
           ELSE \E e \in EditForms(CHOOSE p \in edit_data(edit_id) : TRUE) :
                  /\ pc' = [pc EXCEPT ![s] = "upd_update"]
                  /\ loc' = [loc EXCEPT ![s] = [run |-> "update", edit_id |-> edit_id, form |-> e]]
                  /\ UNCHANGED msg
    /\ UNCHANGED << db, tx, session_state, n_ops, files >>

UpdateCommit(s) ==
    /\ pc[s] = "upd_update"
    /\ tx = NoTx
    /\ db' = UpdatePresentation(db, loc[s].edit_id, loc[s].form)
    /\ session_state' = [session_state EXCEPT ![s].edit_id = {}]
    /\ pc' = [pc EXCEPT ![s] = "idle"]
    /\ loc' = [loc EXCEPT ![s] = NoLoc]
    /\ msg' = delayed_refresh("Presentation Updated!")
    /\ UNCHANGED << tx, n_ops, files >>

\* ------------------------------------------------------------ interruption
\* The server process is killed, at any point: open transactions are rolled
\* back, the script runs and the in-memory session states are gone.
Crash ==
    /\ tx' = NoTx
    /\ session_state' = [s \in Sessions |-> [auth |-> FALSE, dept |-> NoDept, edit_id |-> {}]]
    /\ pc' = [s \in Sessions |-> "idle"]
    /\ loc' = [s \in Sessions |-> NoLoc]
    /\ msg' = IF tx # NoTx /\ pc[tx.owner] \in {"add_insert_log", "add_commit"}
                THEN "killed in add" ELSE "killed"
    /\ UNCHANGED << db, n_ops, files >>

\* ---------------------------------------------------- analytics and reports
\* Series.empty / DataFrame.empty taken for never true.
empty_Never(rows) == FALSE

\* df.empty, filtered_df.empty
empty(rows) == rows = {}

\* df["Year"] = df["date"].dt.year
Year(r) == r.row.date[1]

\* df["Dept"].unique(), df["Year"].unique()
Depts(rows) == { r.Dept : r \in rows }
Years(rows) == { Year(r) : r \in rows }

\* round(a / b, 0) for b > 0: the nearest integer, a half going to the even one.
RoundDiv(a, b) ==
    LET q == a \div b
        r == a % b
    IN IF 2 * r < b THEN q
       ELSE IF 2 * r > b THEN q + 1
       ELSE IF q % 2 = 0 THEN q ELSE q + 1

\* round(a / b, 2), written as its number of hundredths (100.0 is 10000)
round2(a, b) == RoundDiv(100 * a, b)

\* groupby("Year").size(): the count of every year present, indexed by year
yearly_counts(rows) ==
    [y \in Years(rows) |-> Cardinality({ r \in rows : Year(r) = y })]

\* yearly_counts.pct_change().iloc[-1]: the change from the entry before the
\* last to the last entry of the series, as the pair << difference, base >>.
pct_change_last(series) ==
    LET last == CHOOSE y \in DOMAIN series : \A z \in DOMAIN series : z <= y
        prev == CHOOSE y \in DOMAIN series \ {last} :
                    \A z \in DOMAIN series \ {last} : z <= y
    IN << series[last] - series[prev], series[prev] >>

\* yoy_growth (in hundredths of a percent)
yoy_growth(rows) ==
    IF Cardinality(DOMAIN yearly_counts(rows)) > 1
      THEN LET c == pct_change_last(yearly_counts(rows)) IN round2(c[1] * 100, c[2])
      ELSE 0

\* total_presentations, total_departments, intensity_index, yoy_growth
kpi(rows) ==
    [ total_presentations |-> Cardinality(rows),
      total_departments |-> Cardinality(Depts(rows)),
      intensity_index |-> round2(Cardinality(rows), Cardinality(Depts(rows))),
      yoy_growth |-> yoy_growth(rows) ]

\* groupby("Dept").size() / ["Dept"].value_counts(): rows of every department
dept_size(rows) == [d \in Depts(rows) |-> Cardinality({ r \in rows : r.Dept = d })]

\* sort_values(ascending=False): largest count first (the order of
\* departments with equal counts is the sort's)
RECURSIVE SortDesc(_, _)
SortDesc(names, size) ==
    IF names = {} THEN << >>
    ELSE LET top == CHOOSE n \in names : \A m \in names : size[m] <= size[n]
         IN << top >> \o SortDesc(names \ {top}, size)

\* ["Presentations"].rank(ascending=False).astype(int): the mean of the
\* positions 1.. that the equal counts occupy in descending order, truncated.
Rank(size, n) ==
    LET greater == Cardinality({ m \in DOMAIN size : size[m] > size[n] })
        equal == Cardinality({ m \in DOMAIN size : size[m] = size[n] })
    IN greater + ((equal + 1) \div 2)

\* dept_counts / dept_rank: the columns Department, Presentations, Rank
dept_counts(rows) ==
    LET size == dept_size(rows)
        order == SortDesc(DOMAIN size, size)
    IN [i \in DOMAIN order |->
           [Department |-> order[i], Presentations |-> size[order[i]],
            Rank |-> Rank(size, order[i])]]

\* An uncaught exception ends the script run; Streamlit shows it.
Raise(s, exception) ==
    /\ pc' = [pc EXCEPT ![s] = "idle"]
    /\ loc' = [loc EXCEPT ![s] = NoLoc]
    /\ msg' = exception

\* The Analytics tab of a script run; each of its two multiselects starts
\* with every option selected, and the user has removed some of them.
Analytics(s, removed_dept, removed_year) ==
    /\ pc[s] = "idle"
    /\ LET selected_dept == Depts(df(db)) \ removed_dept
           selected_year == Years(df(db)) \ removed_year
           filtered_df == { r \in df(db) : r.Dept \in selected_dept /\ Year(r) \in selected_year }
       IN IF empty(df(db))
            THEN /\ msg' = "No data available for analytics."
                 /\ loc' = [loc EXCEPT ![s] = NoLoc]
          ELSE IF empty(filtered_df)
            THEN /\ msg' = "No data for selected filters."
                 /\ loc' = [loc EXCEPT ![s] = NoLoc]
          ELSE IF Cardinality(Depts(filtered_df)) = 0
            THEN /\ msg' = "ZeroDivisionError"
                 /\ loc' = [loc EXCEPT ![s] = NoLoc]
          ELSE /\ loc' = [loc EXCEPT ![s] =
                            [run |-> "analytics", selected_dept |-> selected_dept,
                             selected_year |-> selected_year, kpi |-> kpi(filtered_df),
                             dept_rank |-> dept_counts(filtered_df), created |-> {}]]
               /\ msg' = ""
    /\ UNCHANGED << db, tx, session_state, pc, n_ops, files >>

\* Admin Control, Reports: "Generate PDF" calls generate_pdf_report(df), which
\* starts with the summary figures.
GeneratePdf(s, admin_pass) ==
    /\ pc[s] = "idle"
    /\ admin_pass = ADMIN_PASS
    /\ IF empty(df(db))
         THEN /\ msg' = "Cannot generate report: No data found."
              /\ loc' = [loc EXCEPT ![s] = NoLoc]
              /\ UNCHANGED pc
       ELSE IF Cardinality(Depts(df(db))) = 0
         THEN Raise(s, "ZeroDivisionError")
       ELSE /\ pc' = [pc EXCEPT ![s] = "pdf_monthly"]
            /\ loc' = [loc EXCEPT ![s] =
                         [run |-> "report", selected_dept |-> Depts(df(db)),
                          selected_year |-> Years(df(db)), kpi |-> kpi(df(db)),
                          dept_rank |-> << >>, created |-> {}]]
            /\ UNCHANGED msg
    /\ UNCHANGED << db, tx, session_state, n_ops, files >>

\* The rows a run computed its figures from.
RowsOf(l) == { r \in df(db) : r.Dept \in l.selected_dept /\ Year(r) \in l.selected_year }

file_path == "institutional_analytics_report.pdf"
Charts == {"monthly.png", "dept.png", "yearly.png"}

\* plt.savefig(name): the chart is written, or the call raises (the file
\* may have been created by then).
savefig(s, name, next, ok, left) ==
    IF ok
      THEN /\ files' = files \cup {name}
           /\ loc' = [loc EXCEPT ![s].created = @ \cup {name}]
           /\ pc' = [pc EXCEPT ![s] = next]
           /\ UNCHANGED msg
      ELSE /\ files' = IF left THEN files \cup {name} ELSE files
           /\ Raise(s, "Exception in generate_pdf_report")

SaveMonthly(s, ok, left) ==
    /\ pc[s] = "pdf_monthly"
    /\ savefig(s, "monthly.png", "pdf_rank", ok, left)
    /\ UNCHANGED << db, tx, session_state, n_ops >>

\* The table "Department Ranking & Performance Score".
RankDepts(s) ==
    /\ pc[s] = "pdf_rank"
    /\ loc' = [loc EXCEPT ![s].dept_rank = dept_counts(RowsOf(loc[s]))]
    /\ pc' = [pc EXCEPT ![s] = "pdf_dept"]
    /\ UNCHANGED << db, tx, session_state, msg, n_ops, files >>

SaveDept(s, ok, left) ==
    /\ pc[s] = "pdf_dept"
    /\ savefig(s, "dept.png",
               IF Cardinality(DOMAIN yearly_counts(RowsOf(loc[s]))) > 1
                 THEN "pdf_yearly" ELSE "pdf_build", ok, left)
    /\ UNCHANGED << db, tx, session_state, n_ops >>

SaveYearly(s, ok, left) ==
    /\ pc[s] = "pdf_yearly"
    /\ savefig(s, "yearly.png", "pdf_build", ok, left)
    /\ UNCHANGED << db, tx, session_state, n_ops >>

\* doc.build(elements): reads the charts and writes the document.
BuildPdf(s, ok, left) ==
    /\ pc[s] = "pdf_build"
    /\ IF ok /\ loc[s].created \subseteq files
         THEN /\ files' = files \cup {file_path}
              /\ pc' = [pc EXCEPT ![s] = "pdf_cleanup"]
              /\ UNCHANGED << loc, msg >>
         ELSE /\ files' = IF left THEN files \cup {file_path} ELSE files
              /\ Raise(s, "Exception in generate_pdf_report")
    /\ UNCHANGED << db, tx, session_state, n_ops >>

\* for f in [...]: if os.path.exists(f): os.remove(f)
RemoveCharts(s) ==
    /\ pc[s] = "pdf_cleanup"
    /\ files' = files \ Charts
    /\ pc' = [pc EXCEPT ![s] = "pdf_read"]
    /\ UNCHANGED << db, tx, session_state, loc, msg, n_ops >>

\* The document is read and removed; the download button is shown.
ReadPdf(s, ok) ==
    /\ pc[s] = "pdf_read"
    /\ IF ok /\ file_path \in files
         THEN /\ files' = files \ {file_path}
              /\ pc' = [pc EXCEPT ![s] = "idle"]
              /\ loc' = [loc EXCEPT ![s] = NoLoc]
              /\ msg' = "Download PDF Report"
         ELSE /\ Raise(s, "Exception in generate_pdf_report")
              /\ UNCHANGED files
    /\ UNCHANGED << db, tx, session_state, n_ops >>

\* ------------------------------------------------- a store with history
\* Presentations in the store the figures are computed from.
MaxRows == 4

ReportDepts == << "CSE", "ECE", "EEE" >>
ReportYears == << 2022, 2023, 2024 >>
\* A presentation's year and department, numbered year by year.
Cells == 1..(Len(ReportYears) * Len(ReportDepts))
CellDept(c) == ((c - 1) % Len(ReportDepts)) + 1
CellYear(c) == ReportYears[((c - 1) \div Len(ReportDepts)) + 1]

\* The store after the admin created the three departments and their
\* coordinators added one presentation for every entry of cell, in that order.
RECURSIVE ReportStore(_)
ReportStore(cell) ==
    IF cell = << >>
      THEN [init_db EXCEPT !.departments =
               [i \in DOMAIN ReportDepts |->
                   [name |-> ReportDepts[i], head_email |-> "hod",
                    coord_email |-> "coord", password |-> "pw1"]]]
      ELSE LET c == cell[Len(cell)]
               f == [p_name |-> "Asha", p_role |-> "Faculty", p_guide |-> "",
                     p_title |-> "Graphs", p_abstract |-> "abs1",
                     p_date |-> [year |-> CellYear(c), month |-> 11, day |-> 2],
                     p_time |-> TIME_SLOTS[1], p_dur |-> DURATIONS[1], p_venue |-> "Hall1"]
           IN InsertLog(InsertPresentation(ReportStore(SubSeq(cell, 1, Len(cell) - 1)),
                                           f, CellDept(c)),
                        "ADDED", f.p_title, f.p_name,
                        ReportDepts[CellDept(c)], ReportDepts[CellDept(c)], 1)

\* The adds were made year after year.
InitReport ==
    /\ \E n \in 0..MaxRows : \E cell \in [1..n -> Cells] :
          /\ \A i \in 1..(n - 1) : cell[i] <= cell[i + 1]
          /\ db = ReportStore(cell)
    /\ tx = NoTx
    /\ session_state = [s \in Sessions |-> [auth |-> FALSE, dept |-> NoDept, edit_id |-> {}]]
    /\ pc = [s \in Sessions |-> "idle"]
    /\ loc = [s \in Sessions |-> NoLoc]
    /\ msg = ""
    /\ n_ops = [added |-> Cardinality(db.presentations), deleted |-> 0]
    /\ files = {}

\* --------------------------------------------------------- specifications
\* One step of the portal: a step of a script run of a session in S, or an
\* admin tool; department names are taken from N and passwords from P, and
\* datetime.now() reads a value of C.
Step(S, N, P, C) ==
    \/ \E s \in S, n \in N \cup {NoDepts}, p \in P : Login(s, n, p)
    \/ \E s \in S : Logout(s)
    \/ \E a \in AdminPassInputs, n \in N, p \in P : CreateDept(a, n, p)
    \/ \E a \in AdminPassInputs, i \in 1..MaxDepts, n \in N, p \in P : UpdateDept(a, i, n, p)
    \/ \E s \in S, f \in AddForms : AddSubmit(s, f)
    \/ \E s \in S : AddInsertPres(s)
    \/ \E s \in S, now \in C : AddInsertLog(s, now)
    \/ \E s \in S : AddCommit(s)
    \/ \E s \in S, i \in 1..MaxPres : EditSelected(s, i)
    \/ \E s \in S, i \in 1..MaxPres : DeleteSelected(s, i)
    \/ \E s \in S, now \in C : DeleteInsertLog(s, now)
    \/ \E s \in S : DeleteRow(s)
    \/ \E s \in S : DeleteCommit(s)
    \/ \E s \in S : UpdateSubmit(s)
    \/ \E s \in S : UpdateCommit(s)
    \/ Crash

\* One coordinator at a time (the single-writer use the portal is built for),
\* the admin renaming departments meanwhile.
Next == Step({"s1"}, {"CSE", "ECE"}, {"pw1"}, {1})
Spec == Init /\ [][Next]_vars

\* Departments and logins alone, with all names and passwords: no other step
\* writes the departments table or turns auth on.
NextAccess ==
    \/ \E s \in Sessions, n \in DeptNames \cup {NoDepts}, p \in Passwords : Login(s, n, p)
    \/ \E s \in Sessions : Logout(s)
    \/ \E a \in AdminPassInputs, n \in DeptNames, p \in Passwords : CreateDept(a, n, p)
    \/ \E a \in AdminPassInputs, i \in 1..MaxDepts, n \in DeptNames, p \in Passwords :
          UpdateDept(a, i, n, p)
    \/ Crash
SpecAccess == Init /\ [][NextAccess]_vars

\* One coordinator, with a clock that may step backwards between log entries.
NextAudit == Step({"s1"}, {"CSE"}, {"pw1"}, Clock)
SpecAudit == Init /\ [][NextAudit]_vars

\* Two coordinator sessions of one department whose script runs interleave.
NextRace == Step(Sessions, {"CSE"}, {"pw1"}, {1})
SpecRace == Init /\ [][NextRace]_vars

\* Options removed from the multiselects of the Analytics tab: none, all but
\* the first, or all.
RemovedDepts == { {}, {"ECE", "EEE"}, {"CSE", "ECE", "EEE"} }
RemovedYears == { {}, {2022, 2023}, {2022, 2023, 2024} }

\* One step of a PDF report of session s1; B holds the outcomes of the file
\* operations (TRUE: done, FALSE: the call raises).
ReportStep(B) ==
    \/ \E a \in AdminPassInputs : GeneratePdf("s1", a)
    \/ \E ok \in B, left \in BOOLEAN : SaveMonthly("s1", ok, left)
    \/ RankDepts("s1")
    \/ \E ok \in B, left \in BOOLEAN : SaveDept("s1", ok, left)
    \/ \E ok \in B, left \in BOOLEAN : SaveYearly("s1", ok, left)
    \/ \E ok \in B, left \in BOOLEAN : BuildPdf("s1", ok, left)
    \/ RemoveCharts("s1")
    \/ \E ok \in B : ReadPdf("s1", ok)

\* The figures of the Analytics tab and of the PDF report, over a store with
\* presentations of several departments and years.
NextAnalytics ==
    \/ \E rd \in RemovedDepts, ry \in RemovedYears : Analytics("s1", rd, ry)
    \/ ReportStep({TRUE})
SpecAnalytics == InitReport /\ [][NextAnalytics]_vars

\* The PDF report with file operations that may fail.
NextReport == ReportStep(BOOLEAN)
SpecReport == InitReport /\ [][NextReport]_vars

\* ------------------------------------------------------------------ claims

\* C1: a login step authenticates the session as the chosen department (auth
\* = true, dept = that name) if and only if a department with that name exists
\* and the entered password equals the password stored for it; with no
\* department, or an unknown name, it never authenticates, and no other step
\* turns auth on.
C1_LoginIffPasswordMatches ==
    [][ /\ \A s \in Sessions, n \in DeptNames \cup {NoDepts}, p \in Passwords :
             Login(s, n, p) =>
                ( (session_state'[s].auth /\ session_state'[s].dept = n)
                  <=> \E i \in DeptIds(db) : /\ db.departments[i].name = n
                                             /\ db.departments[i].password = p )
        /\ \A s \in Sessions :
             (~session_state[s].auth /\ session_state'[s].auth) =>
                \E n \in DeptNames, p \in Passwords : Login(s, n, p)
      ]_vars

\* A session is logged in while two departments with different passwords exist.
C1_Witness ==
    /\ Len(db.departments) = 2
    /\ db.departments[1].password # db.departments[2].password
    /\ \E s \in Sessions : session_state[s].auth /\ session_state[s].dept = db.departments[2].name

\* C2: no two stored presentations share the same (date, time, venue): the add
\* of a second presentation with an identical triple is rejected.
C2_NoDoubleBooking ==
    \A p, q \in db.presentations :
        p.id # q.id => << p.date, p.time, p.venue_hall >> # << q.date, q.time, q.venue_hall >>

\* C3: after N add operations and M delete operations that reported success,
\* the activity listing has exactly N+M entries, newest first by insertion
\* order (descending id), whatever the recorded action_time values are.
C3_ListingCountAndOrder ==
    /\ Len(log_df) = n_ops.added + n_ops.deleted
    /\ \A i, j \in DOMAIN log_rows : i < j => log_rows[i].id > log_rows[j].id

\* Adds and deletes were logged and a newer entry carries an earlier time.
C3_Witness ==
    /\ n_ops.added >= 1
    /\ n_ops.deleted >= 1
    /\ \E i, j \in DOMAIN log_rows : i < j /\ log_rows[i].action_time < log_rows[j].action_time

\* C4: audit and store never diverge: there are as many ADDED entries as rows
\* ever inserted and as many DELETED entries as rows actually removed.
C4_AuditMatchesStore ==
    LET inserted == db.sqlite_sequence.presentations
        removed == inserted - Cardinality(db.presentations)
    IN /\ Cardinality({ e \in db.activity_logs : e.action = "ADDED" }) = inserted
       /\ Cardinality({ e \in db.activity_logs : e.action = "DELETED" }) = removed

\* C5: the activity log is append-only: every step keeps every existing log
\* entry with all its fields, and a delete removes the presentation from the
\* presentation listing.
C5_LogAppendOnly ==
    [][ /\ \A e \in db.activity_logs : e \in db'.activity_logs
        /\ \A s \in Sessions :
             DeleteCommit(s) => \A r \in df(db') : r.row.id # loc[s].selected_id
      ]_vars

\* A presentation was deleted; its ADDED entry is still in the log.
C5_Witness ==
    /\ n_ops.deleted >= 1
    /\ \E e \in db.activity_logs :
          /\ e.action = "ADDED"
          /\ \E g \in db.activity_logs : g.action = "DELETED" /\ g.title = e.title
          /\ \A r \in df(db) : r.row.title # e.title

\* The form's values are in the listing, under the given department.
Listed(f, dept, d) ==
    \E r \in df(d) :
        /\ r.row.presenter = f.p_name /\ r.row.designation = f.p_role
        /\ r.row.guide_name = f.p_guide /\ r.row.title = f.p_title
        /\ r.row.abstract = f.p_abstract /\ r.row.date = DateStr(f.p_date)
        /\ r.row.time = f.p_time /\ r.row.duration = f.p_dur
        /\ r.row.venue_hall = f.p_venue /\ r.Dept = dept

\* C6: when the run of an add request with non-empty presenter and title, from
\* an authenticated coordinator, has ended, the listing holds a record with
\* the submitted values under the coordinator's department.
C6_AddIsListed ==
    [][ /\ \A s \in Sessions, f \in AddForms :
             (f.p_name # "" /\ f.p_title # "" /\ AddSubmit(s, f) /\ pc'[s] = "idle")
                => Listed(f, session_state[s].dept, db')
        /\ \A s \in Sessions :
             AddCommit(s) => Listed(loc[s].form, session_state[s].dept, db')
      ]_vars

\* C7: add is atomic: a step makes a new presentation visible exactly when it
\* makes its ADDED entry visible, and an interruption makes neither visible.
C7_AddAtomic ==
    [][ LET NewPres == { p \in db'.presentations : \A q \in db.presentations : q.id # p.id }
            NewAdded == { e \in db'.activity_logs : e.action = "ADDED" } \ db.activity_logs
        IN /\ Cardinality(NewPres) = Cardinality(NewAdded)
           /\ \A p \in NewPres :
                 \E e \in NewAdded : e.title = p.title /\ e.presenter = p.presenter
           /\ Crash => db' = db
      ]_vars

\* The process was killed between the two inserts or before the commit.
C7_Witness ==
    /\ msg = "killed in add"
    /\ Cardinality({ e \in db.activity_logs : e.action = "ADDED" })
          = db.sqlite_sequence.presentations

\* C8: department names are unique in every state; a create with an existing
\* name, or an edit to another department's name, fails with the integrity
\* error and leaves the departments table unchanged.
C8_DeptNamesUnique ==
    [][ /\ \A i, j \in DeptIds(db') :
             db'.departments[i].name = db'.departments[j].name => i = j
        /\ \A n \in DeptNamesOf(db), p \in Passwords :
             CreateDept(ADMIN_PASS, n, p)
                => (db'.departments = db.departments /\ msg' = "sqlite3.IntegrityError")
        /\ \A i, j \in DeptIds(db), p \in Passwords :
             (i # j /\ UpdateDept(ADMIN_PASS, i, db.departments[j].name, p))
                => (db'.departments = db.departments /\ msg' = "sqlite3.IntegrityError")
      ]_vars

\* Two departments exist and a create or edit was just refused.
C8_Witness ==
    /\ msg = "sqlite3.IntegrityError"
    /\ Len(db.departments) = 2

\* C9: the dept_id of every stored presentation, committed or pending, is the
\* id of an existing department.
C9_DeptIdExists ==
    \A p \in db.presentations \cup (IF tx = NoTx THEN {} ELSE tx.db.presentations) :
        p.dept_id \in DeptIds(db)

\* A presentation is stored whose department was renamed after it was added.
C9_Witness ==
    \E p \in db.presentations, e \in db.activity_logs :
        /\ e.action = "ADDED" /\ e.title = p.title
        /\ p.dept_id \in DeptIds(db)
        /\ e.dept_name # db.departments[p.dept_id].name

\* C10: a presentation is added, updated or deleted only by a session that is
\* authenticated at the moment of the change.
C10_ChangeNeedsAuth ==
    [][ \A s \in Sessions :
          (AddCommit(s) \/ DeleteCommit(s) \/ UpdateCommit(s)) => session_state[s].auth
      ]_vars
\* The positions of a script run inside generate_pdf_report.
PdfPositions ==
    {"pdf_monthly", "pdf_rank", "pdf_dept", "pdf_yearly", "pdf_build", "pdf_cleanup", "pdf_read"}

\* The ranking tables computed by the runs of the sessions.
Rankings ==
    { loc[s].dept_rank : s \in { x \in Sessions : loc[x].run \in {"analytics", "report"} } }

\* C11: a department ranking lists the departments by descending count, and
\* the Rank of each is the dense rank of its count: 1 for the highest count,
\* equal counts the same rank, the next lower count the next integer.
C11_DenseRank ==
    \A t \in Rankings :
        /\ \A i, j \in DOMAIN t : i < j => t[i].Presentations >= t[j].Presentations
        /\ \A i \in DOMAIN t :
              t[i].Rank = 1 + Cardinality({ t[j].Presentations : j \in
                                { k \in DOMAIN t : t[k].Presentations > t[i].Presentations } })

\* C12: year-over-year growth is 0 when the rows hold fewer than two distinct
\* years; otherwise it is (count(Y) - count(Y-1)) / count(Y-1) * 100 for the
\* last year Y present and the calendar year Y-1 before it (written in
\* hundredths), also when the years present are not consecutive.
C12_YoYGrowth ==
    \A s \in Sessions : loc[s].run \in {"analytics", "report"} =>
        LET rows == RowsOf(loc[s])
            Y == CHOOSE y \in Years(rows) : \A z \in Years(rows) : z <= y
            countY == Cardinality({ r \in rows : Year(r) = Y })
            countY1 == Cardinality({ r \in rows : Year(r) = Y - 1 })
        IN IF Cardinality(Years(rows)) < 2
             THEN loc[s].kpi.yoy_growth = 0
             ELSE /\ countY1 > 0
                  /\ loc[s].kpi.yoy_growth = round2((countY - countY1) * 100, countY1)

\* C13: the research intensity index is never evaluated with zero distinct
\* departments: a run of the Analytics tab or of the PDF report that reaches
\* the division has a non-empty row set, and a run whose row set is empty
\* ends with an insufficient-data message, never with a division by zero.
C13_NoDivisionByZero ==
    [][\A s \in Sessions :
          /\ \A rd \in RemovedDepts, ry \in RemovedYears :
                Analytics(s, rd, ry) =>
                    /\ msg' # "ZeroDivisionError"
                    /\ IF { r \in df(db) : r.Dept \notin rd /\ Year(r) \notin ry } = {}
                         THEN /\ msg' \in {"No data available for analytics.",
                                           "No data for selected filters."}
                              /\ loc'[s] = NoLoc
                         ELSE /\ loc'[s].run = "analytics"
                              /\ loc'[s].kpi.total_departments >= 1
                              /\ loc'[s].kpi.intensity_index * loc'[s].kpi.total_departments
                                   \in (100 * loc'[s].kpi.total_presentations - 3)
                                         .. (100 * loc'[s].kpi.total_presentations + 3)
          /\ GeneratePdf(s, ADMIN_PASS) =>
                /\ msg' # "ZeroDivisionError"
                /\ IF df(db) = {}
                     THEN msg' = "Cannot generate report: No data found." /\ pc'[s] = "idle"
                     ELSE /\ pc'[s] = "pdf_monthly"
                          /\ loc'[s].kpi.total_departments >= 1]_vars

\* C13 happens: the Analytics tab was run with filters that select nothing
\* of a non-empty store, and a PDF report then computed its index over rows
\* of three departments.
C13_Witness ==
    /\ msg = "No data for selected filters."
    /\ loc["s1"].run = "report"
    /\ loc["s1"].kpi.total_departments = 3
    /\ loc["s1"].kpi.total_presentations = 4
    /\ loc["s1"].kpi.intensity_index = 133

\* C14: when generate_pdf_report ends, by returning the PDF bytes or by an
\* exception of any of its steps, none of the chart files monthly.png,
\* dept.png, yearly.png created by that run is left on disk.
C14_ChartsRemoved ==
    [][\A s \in Sessions :
          (pc[s] \in PdfPositions /\ pc'[s] = "idle")
              => (loc[s].created \cup (files' \ files)) \cap files' \cap Charts = {}]_vars

\* The position of a time text in TIME_SLOTS (08:00 AM is 1, 07:45 PM is 48).
SlotOf(t) == CHOOSE i \in DOMAIN TIME_SLOTS : TIME_SLOTS[i] = t

\* C15: the upcoming listing is ordered by (date, time): of two listed
\* presentations on the same date, the one whose start slot is earlier in the
\* day (08:00 AM ... 07:45 PM) is listed before the one whose slot is later.
C15_UpcomingBySlot ==
    \A today \in Todays :
        LET shown == upcoming_shown(today) IN
        \A i, j \in DOMAIN shown :
            (i < j /\ shown[i].row.date = shown[j].row.date)
                => SlotOf(shown[i].row.time) <= SlotOf(shown[j].row.time)

\* C16: in every reachable state, committed or pending, the time of every
\* stored presentation is one of the 48 slots 08:00 AM .. 07:45 PM in steps
\* of 15 minutes; no add and no update stores another time.
C16_TimeInSlots ==
    /\ Len(TIME_SLOTS) = 48
    /\ \A i \in DOMAIN TIME_SLOTS :
          LET minutes == 8 * 60 + (i - 1) * 15 IN
          TIME_SLOTS[i] = strftime(minutes \div 60, minutes % 60)
    /\ \A p \in db.presentations \cup (IF tx = NoTx THEN {} ELSE tx.db.presentations) :
          \E i \in DOMAIN TIME_SLOTS : p.time = TIME_SLOTS[i]

\* C16 happens: one presentation stored by an add and one whose time was set
\* by an update.
C16_Witness ==
    \E p, q \in db.presentations :
        /\ p.time = TIME_SLOTS[1]
        /\ q.time = TIME_SLOTS[21] /\ q.title = "Graphs II"

\* C17: an update whose target id no longer exists (the row was deleted after
\* it was chosen for editing) reports a not-found outcome to the user and
\* changes no presentation; it is not silently ignored, let alone reported
\* as done.
C17_UpdateOfMissingReported ==
    [][\A s \in Sessions :
          /\ (UpdateSubmit(s) /\ \A i \in session_state[s].edit_id : edit_data(i) = {})
                => (msg' = "NotFound" /\ db' = db)
          /\ (UpdateCommit(s) /\ edit_data(loc[s].edit_id) = {})
                => (msg' = "NotFound" /\ db' = db)]_vars

\* C18: an update sets the title, venue, time and duration of the target to
\* the submitted values and changes nothing else: the target's other columns,
\* every other presentation, the departments and the activity log stay as
\* they were (the log only ever holds ADDED and DELETED entries), and the
\* session's pending edit target is cleared.
C18_UpdateFrame ==
    [][/\ \A s \in Sessions : UpdateCommit(s) =>
            /\ \A q \in db'.presentations : \E p \in db.presentations :
                  /\ p.id = q.id
                  /\ IF p.id = loc[s].edit_id
                       THEN q = [p EXCEPT !.title = loc[s].form.new_title,
                                          !.venue_hall = loc[s].form.new_venue,
                                          !.time = loc[s].form.new_time,
                                          !.duration = loc[s].form.new_duration]
                       ELSE q = p
            /\ { q.id : q \in db'.presentations } = { p.id : p \in db.presentations }
            /\ db'.activity_logs = db.activity_logs
            /\ db'.departments = db.departments
            /\ db'.sqlite_sequence = db.sqlite_sequence
            /\ session_state'[s].edit_id = {}
       /\ \A e \in db'.activity_logs : e.action \in {"ADDED", "DELETED"}]_vars

\* C18 happens: an update changed all four columns of a presentation; the
\* log holds the entry of its add alone and no edit target is pending.
C18_Witness ==
    /\ \E p \in db.presentations :
          /\ p.title = "Graphs II" /\ p.venue_hall = "Hall2"
          /\ p.time = TIME_SLOTS[21] /\ p.duration = DURATIONS[2]
          /\ p.presenter \in {"Asha", "Ravi"}
    /\ \A s \in Sessions : session_state[s].edit_id = {} /\ pc[s] = "idle"
    /\ { e.action : e \in db.activity_logs } = {"ADDED"}


====
